---- MODULE Spec2Model ----
(***************************************************************************)
(* Model of koku/api/iam/serializers.py: user registration, customer       *)
(* (tenant) provisioning, user preference validation and the locale side   *)
(* effect of _currency_symbols.                                            *)
(*                                                                         *)
(* The database is the four tables users, prefs, tokens, customers.  A     *)
(* serializer's is_valid() and save() are separate calls of the request    *)
(* handler, so a validated request waits in `pending` until it is saved;   *)
(* each save runs in one transaction (transaction.atomic).  Strings that   *)
(* are processed character by character (customer names) are sequences of  *)
(* one-character strings.                                                  *)
(***************************************************************************)
EXTENDS Integers, Sequences, FiniteSets, TLC

VARIABLES
  users,        \* User rows (User.objects.create_user)
  prefs,        \* UserPreference rows
  tokens,       \* ResetToken rows
  customers,    \* Customer rows, each with its user_set
  outbox,       \* the calls made to new_user_login_email, in order
  pending,      \* validated registrations / customers waiting for save()
  nextId,       \* next fresh value for User.id, User.uuid, ResetToken.token
  lc_ctype,     \* the process's LC_CTYPE setting
  lc_monetary,  \* the process's LC_MONETARY setting
  settings,     \* settings.KOKU_DEFAULT_CURRENCY / _TIMEZONE / _LOCALE
  prefWrites,   \* preference requests handled so far
  last          \* the last call: its operation, outcome and completed steps

vars == <<users, prefs, tokens, customers, outbox, pending, nextId,
          lc_ctype, lc_monetary, settings, prefWrites, last>>

---------------------------------------------------------------------------
(* Bounds *)

\* requests handled over a run: registrations, customers, preference writes
MaxCalls == 2

---------------------------------------------------------------------------
(* Input domains *)

None == "None"

\* the owner / registration payloads considered: two usernames, two emails,
\* with and without a password
UserRequests ==
  { [username |-> "alice", email |-> "a@x.org", password |-> None],
    [username |-> "bob", email |-> "a@x.org", password |-> "pw"],
    [username |-> "bob", email |-> "b@x.org", password |-> None] }

\* customer display names, as character sequences
CustomerNames == { <<"A", "-", "c">>, <<"a", "_", "c">>, <<"-">> }

\* characters matched by \w other than the underscore, and their lowercase
Alnum == {"A", "a", "c", "1"}

Lower(ch) == IF ch = "A" THEN "a" ELSE ch

PrefNames == {"currency", "timezone", "locale"}

\* locale.locale_alias.values(), in iteration order
LocaleAliasValues == <<"C", "en_US.ISO8859-1", "de_DE.ISO8859-1", "xx_XX.ISO8859-1">>

\* locales the C library can actually switch to
Installed == {"C", "en_US.ISO8859-1", "de_DE.ISO8859-1", "en_US.UTF-8"}

\* pytz.all_timezones
AllTimezones == {"UTC", "Europe/Berlin"}

\* a preference value in a request; Missing stands for a preference dict
\* without the key
Missing == "<missing>"
PrefValues == {"USD", "", Missing}

\* the settings.KOKU_DEFAULT_* configurations considered
SettingsChoices ==
  { [currency |-> "USD", timezone |-> "UTC", locale |-> "en_US.ISO8859-1"],
    [currency |-> "XXX", timezone |-> "UTC", locale |-> "en_US.ISO8859-1"],
    [currency |-> "USD", timezone |-> "Mars/Base", locale |-> "en_US.ISO8859-1"],
    [currency |-> "USD", timezone |-> "UTC", locale |-> "tlh_QO"] }

\* LC_CTYPE settings the process may start with (the interpreter takes
\* LC_CTYPE from the environment at startup; the other categories start "C")
ProcessLocales == {"C", "en_US.UTF-8"}

StepNames == {"create_user", "pref_currency", "pref_timezone", "pref_locale",
              "reset_token", "email", "customer", "user_set"}

---------------------------------------------------------------------------
(* Pure helpers *)

\* the class \w of Python's re: letters, digits and the underscore
IsWordChar(ch) == ch \in Alnum \cup {"_"}

\* the character class [\W_] of the pattern in _create_schema_name
MatchesNonWordOrUnderscore(ch) == ~IsWordChar(ch) \/ ch = "_"

RECURSIVE _create_schema_name_NoLower(_)
_create_schema_name_NoLower(name) ==
  IF name = <<>> THEN <<>>
  ELSE (IF MatchesNonWordOrUnderscore(Head(name)) THEN <<>> ELSE <<Head(name)>>)
       \o _create_schema_name_NoLower(Tail(name))

\* re.compile(r'[\W_]+').sub('', customer_name).lower()
RECURSIVE _create_schema_name(_)
_create_schema_name(name) ==
  IF name = <<>> THEN <<>>
  ELSE (IF MatchesNonWordOrUnderscore(Head(name)) THEN <<>> ELSE <<Lower(Head(name))>>)
       \o _create_schema_name(Tail(name))

\* locale.normalize on a canonical alias value returns the value itself
Normalize(loc) ==
  CASE loc = "en_US.ISO8859-1" -> "en_US.ISO8859-1"
    [] loc = "de_DE.ISO8859-1" -> "de_DE.ISO8859-1"
    [] loc = "xx_XX.ISO8859-1" -> "xx_XX.ISO8859-1"
    [] OTHER -> "C"

\* locale.localeconv()['int_curr_symbol'] under LC_MONETARY = loc
IntCurrSymbol(loc) ==
  CASE loc \in {"en_US.ISO8859-1", "en_US.UTF-8"} -> "USD "
    [] loc = "de_DE.ISO8859-1" -> "EUR "
    [] OTHER -> ""

\* str.strip()
Strip(str) ==
  CASE str = "USD " -> "USD"
    [] str = "EUR " -> "EUR"
    [] OTHER -> str

\* locale.getlocale(): the LC_CTYPE setting parsed into (language, encoding)
GetLocale(ctype) ==
  CASE ctype = "en_US.UTF-8" -> <<"en_US", "UTF-8">>
    [] ctype = "en_US.ISO8859-1" -> <<"en_US", "ISO8859-1">>
    [] ctype = "de_DE.ISO8859-1" -> <<"de_DE", "ISO8859-1">>
    [] OTHER -> <<None, None>>

\* setlocale's rendering of a (language, encoding) pair as a locale name
BuildLocalename(pair) ==
  CASE pair = <<"en_US", "UTF-8">> -> "en_US.UTF-8"
    [] pair = <<"en_US", "ISO8859-1">> -> "en_US.ISO8859-1"
    [] pair = <<"de_DE", "ISO8859-1">> -> "de_DE.ISO8859-1"
    [] OTHER -> "C"

\* The loop of _currency_symbols from position i on.  acc = [monetary, symbols].
\* emptySame: whether the formatted empty string is the very object '' (the
\* test is `currency is not ''`, an identity test).
RECURSIVE CurrencyLoop(_, _, _)
CurrencyLoop(i, acc, emptySame) ==
  IF i > Len(LocaleAliasValues) THEN acc
  ELSE LET loc == Normalize(LocaleAliasValues[i])
       IN IF loc \notin Installed
          THEN CurrencyLoop(i + 1, acc, emptySame)
          ELSE LET currency == IntCurrSymbol(loc)
                   isNotEmpty == ~(currency = "" /\ emptySame)
               IN CurrencyLoop(i + 1,
                    [monetary |-> loc,
                     symbols |-> IF isNotEmpty THEN acc.symbols \cup {Strip(currency)}
                                 ELSE acc.symbols],
                    emptySame)

\* _currency_symbols(): the symbols found and the LC_MONETARY setting it leaves
_currency_symbols(ctype, monetary, emptySame) ==
  LET current == GetLocale(ctype)
      done == CurrencyLoop(1, [monetary |-> monetary, symbols |-> {}], emptySame)
  IN [symbols |-> done.symbols, monetary |-> BuildLocalename(current)]

\* the valid set of each validated preference name
LocaleAliases == {LocaleAliasValues[i] : i \in 1..Len(LocaleAliasValues)}
CurrencySymbols == {"USD", "EUR"}
ValidSet(name) ==
  CASE name = "locale" -> LocaleAliases
    [] name = "currency" -> CurrencySymbols
    [] name = "timezone" -> AllTimezones
    [] OTHER -> {}

\* data.get('name') is not field: an identity test, true of equal strings that
\* are different objects.  data.interned says whether the name is the very
\* object of the literal.
NameIsNot(data, field) == ~(data.name = field /\ data.interned)

\* _generic_validation: TRUE when it returns, FALSE when it raises
_generic_validation(data, field, iterable) ==
  IF NameIsNot(data, field) THEN TRUE
  ELSE data.value \in iterable

\* UserPreferenceSerializer.validate: [ok, monetary]
validate(data, ctype, monetary, emptySame) ==
  IF ~_generic_validation(data, "locale", LocaleAliases)
  THEN [ok |-> FALSE, monetary |-> monetary]
  ELSE LET cs == _currency_symbols(ctype, monetary, emptySame)
       IN IF ~_generic_validation(data, "currency", cs.symbols)
          THEN [ok |-> FALSE, monetary |-> cs.monetary]
          ELSE [ok |-> _generic_validation(data, "timezone", AllTimezones),
                monetary |-> cs.monetary]

---------------------------------------------------------------------------
(* The database and the effects of one call.  A call works on a record     *)
(*   [users, prefs, tokens, customers, outbox, monetary, steps, ok]        *)
(* holding the tables, the mails handed to new_user_login_email, the       *)
(* LC_MONETARY setting, the steps completed so far and whether the call    *)
(* is still running (ok) or has raised.                                    *)

Begin ==
  [users |-> users, prefs |-> prefs, tokens |-> tokens, customers |-> customers,
   outbox |-> outbox, monetary |-> lc_monetary, steps |-> <<>>, ok |-> TRUE]

Done(S, name) == [S EXCEPT !.steps = Append(@, name)]
Raise(S) == [S EXCEPT !.ok = FALSE]

\* user_pass of _create_user: the given password, or a generated one
UserPass(password) == IF password = None THEN "temp" ELSE password

\* User.objects.create_user: a unique username, else the insert raises
create_user(S, r, ids, failAt) ==
  IF failAt = "create_user" \/ \E u \in S.users : u.username = r.username
  THEN Raise(S)
  ELSE Done([S EXCEPT !.users = @ \cup
               {[id |-> ids.id, uuid |-> ids.uuid, username |-> r.username,
                 email |-> r.email, password |-> UserPass(r.password)]}],
            "create_user")

\* UserPreferenceSerializer.create: the row is stored for the user found by
\* the username of the context user
PreferenceCreate(S, username, data, description) ==
  LET user == CHOOSE u \in S.users : u.username = username
  IN [S EXCEPT !.prefs = @ \cup
        {[user |-> user.id, name |-> data.name, value |-> data.value,
          description |-> description]}]

\* the defaults list of _create_default_preferences, in order
DefaultNames == <<"currency", "timezone", "locale">>

DefaultNames_NoLocale == <<"currency", "timezone">>

\* the loop of _create_default_preferences from position i on
RECURSIVE DefaultsLoop(_, _, _, _, _, _)
DefaultsLoop(i, names, S, username, cfg, env) ==
  IF i > Len(names) \/ ~S.ok THEN S
  ELSE LET name == names[i]
           data == [name |-> name, value |-> cfg[name], interned |-> TRUE]
           v == validate(data, env.ctype, S.monetary, env.emptySame)
           S1 == [S EXCEPT !.monetary = v.monetary]
           step == "pref_" \o name
       IN IF ~v.ok \/ env.failAt = step
          THEN Raise(S1)
          ELSE DefaultsLoop(i + 1, names,
                 Done(PreferenceCreate(S1, username, data, "default preference"), step),
                 username, cfg, env)

_create_default_preferences_Partial(S, username, cfg, env) ==
  DefaultsLoop(1, DefaultNames_NoLocale, S, username, cfg, env)

_create_default_preferences(S, username, cfg, env) ==
  DefaultsLoop(1, DefaultNames, S, username, cfg, env)

SaveResetToken_Skip(S, ids, failAt) ==
  IF ~S.ok THEN S
  ELSE IF failAt = "reset_token" THEN Raise(S)
  ELSE Done(S, "reset_token")

\* reset_token = ResetToken(user=user); reset_token.save()
SaveResetToken(S, ids, failAt) ==
  IF ~S.ok THEN S
  ELSE IF failAt = "reset_token" THEN Raise(S)
  ELSE Done([S EXCEPT !.tokens = @ \cup {[user |-> ids.id, token |-> ids.token]}],
            "reset_token")

SendLoginEmail_UserId(S, r, ids, failAt) ==
  IF ~S.ok THEN S
  ELSE IF failAt = "email" THEN Raise(S)
  ELSE Done([S EXCEPT !.outbox = Append(@,
               [username |-> r.username, email |-> r.email,
                uuid |-> ids.id, token |-> ids.token])],
            "email")

\* new_user_login_email(username, email, str(user.uuid), str(reset_token.token))
SendLoginEmail(S, r, ids, failAt) ==
  IF ~S.ok THEN S
  ELSE IF failAt = "email" THEN Raise(S)
  ELSE Done([S EXCEPT !.outbox = Append(@,
               [username |-> r.username, email |-> r.email,
                uuid |-> ids.uuid, token |-> ids.token])],
            "email")

\* _create_user
_create_user(S, r, ids, cfg, env) ==
  LET S1 == create_user(S, r, ids, env.failAt)
      S2 == IF S1.ok THEN _create_default_preferences(S1, r.username, cfg, env) ELSE S1
      S3 == SaveResetToken(S2, ids, env.failAt)
  IN SendLoginEmail(S3, r, ids, env.failAt)

Atomic_NoRollback(pre, post) == post

\* transaction.atomic: the tables are those written by the call when it
\* returns, and those before the call when it raises; nothing else is undone
Atomic(pre, post) ==
  IF post.ok THEN post
  ELSE [post EXCEPT !.users = pre.users, !.prefs = pre.prefs,
                    !.tokens = pre.tokens, !.customers = pre.customers]

\* UserSerializer.create
UserSerializer_create(S, r, ids, cfg, env) ==
  Atomic(S, _create_user(S, r, ids, cfg, env))

\* the body of CustomerSerializer.create after the owner is created
CustomerRows(S, r, ids, failAt) ==
  IF ~S.ok THEN S
  ELSE IF failAt = "customer" THEN Raise(S)
  ELSE LET row == [name |-> r.name, schema_name |-> _create_schema_name(r.name),
                   owner |-> ids.id, user_set |-> {}]
           S1 == Done([S EXCEPT !.customers = @ \cup {row}], "customer")
       IN IF failAt = "user_set" THEN Raise(S1)
          ELSE Done([S1 EXCEPT !.customers =
                       (@ \ {row}) \cup {[row EXCEPT !.user_set = {ids.id}]}],
                    "user_set")

\* CustomerSerializer.create
CustomerSerializer_create(S, r, ids, cfg, env) ==
  Atomic(S, CustomerRows(_create_user(S, r, ids, cfg, env), r, ids, env.failAt))

---------------------------------------------------------------------------
(* The state machine *)

FailPoints == {"none"} \cup StepNames

NoData == [name |-> None, value |-> None, interned |-> FALSE]

Init ==
  /\ users = {} /\ prefs = {} /\ tokens = {} /\ customers = {}
  /\ outbox = <<>>
  /\ pending = {}
  /\ nextId = 1
  /\ lc_ctype \in ProcessLocales
  /\ lc_monetary = "C"
  /\ settings \in SettingsChoices
  /\ prefWrites = 0
  /\ last = [op |-> "init", ok |-> TRUE, steps |-> <<>>, user |-> 0, data |-> NoData]

\* the tables, the outbox and the locale after a call that ended in S
Commit(S) ==
  /\ users' = S.users /\ prefs' = S.prefs /\ tokens' = S.tokens
  /\ customers' = S.customers
  /\ outbox' = S.outbox
  /\ lc_monetary' = S.monetary

\* UniqueValidator(queryset=User.objects.all()) on the email field
EmailIsUnique(email) == \A u \in users : u.email # email

\* requests so far: creations run (three ids each), validated requests
\* waiting for save(), and preference writes
Accepted == (nextId - 1) \div 3 + Cardinality(pending) + prefWrites

Accepting == Accepted < MaxCalls

\* UserSerializer.is_valid(): the request is kept for save() when its email
\* belongs to no stored user, and rejected otherwise
UserValidate ==
  \E r \in UserRequests :
    /\ Accepting
    /\ pending' = IF EmailIsUnique(r.email)
                  THEN pending \cup {[kind |-> "user", username |-> r.username,
                                      email |-> r.email, password |-> r.password,
                                      name |-> <<>>]}
                  ELSE pending
    /\ last' = [op |-> "user_validate", ok |-> EmailIsUnique(r.email), steps |-> <<>>,
                user |-> 0, data |-> NoData]
    /\ UNCHANGED <<users, prefs, tokens, customers, outbox, nextId,
                   lc_ctype, lc_monetary, settings, prefWrites>>

\* CustomerSerializer.is_valid(): the nested owner is a UserSerializer, whose
\* email validators run on the owner's data
CustomerValidate ==
  \E r \in UserRequests, n \in CustomerNames :
    /\ Accepting
    /\ pending' = IF EmailIsUnique(r.email)
                  THEN pending \cup {[kind |-> "customer", username |-> r.username,
                                      email |-> r.email, password |-> r.password,
                                      name |-> n]}
                  ELSE pending
    /\ last' = [op |-> "customer_validate", ok |-> EmailIsUnique(r.email),
                steps |-> <<>>, user |-> 0, data |-> NoData]
    /\ UNCHANGED <<users, prefs, tokens, customers, outbox, nextId,
                   lc_ctype, lc_monetary, settings, prefWrites>>

FreshIds == [id |-> nextId, uuid |-> nextId + 1, token |-> nextId + 2]

\* UserSerializer.save() of a validated registration
UserCreate ==
  \E r \in pending, failAt \in FailPoints, emptySame \in BOOLEAN :
    /\ r.kind = "user"
    /\ LET env == [failAt |-> failAt, emptySame |-> emptySame, ctype |-> lc_ctype]
           S == UserSerializer_create(Begin, r, FreshIds, settings, env)
       IN /\ Commit(S)
          /\ last' = [op |-> "user_create", ok |-> S.ok, steps |-> S.steps,
                      user |-> FreshIds.id, data |-> NoData]
    /\ pending' = pending \ {r}
    /\ nextId' = nextId + 3
    /\ UNCHANGED <<lc_ctype, settings, prefWrites>>

\* CustomerSerializer.save() of a validated customer
CustomerCreate ==
  \E r \in pending, failAt \in FailPoints, emptySame \in BOOLEAN :
    /\ r.kind = "customer"
    /\ LET env == [failAt |-> failAt, emptySame |-> emptySame, ctype |-> lc_ctype]
           S == CustomerSerializer_create(Begin, r, FreshIds, settings, env)
       IN /\ Commit(S)
          /\ last' = [op |-> "customer_create", ok |-> S.ok, steps |-> S.steps,
                      user |-> FreshIds.id, data |-> NoData]
    /\ pending' = pending \ {r}
    /\ nextId' = nextId + 3
    /\ UNCHANGED <<lc_ctype, settings, prefWrites>>

PrefData == [name : PrefNames \cup {"theme"}, value : PrefValues, interned : BOOLEAN]

\* is_valid(raise_exception=True) and save() of a new preference of user u
PreferenceSave ==
  \E u \in users, data \in PrefData, emptySame \in BOOLEAN :
    /\ Accepting
    /\ LET v == validate(data, lc_ctype, lc_monetary, emptySame)
           S0 == [Begin EXCEPT !.monetary = v.monetary]
           S == IF v.ok THEN PreferenceCreate(S0, u.username, data, "custom")
                ELSE Raise(S0)
       IN /\ Commit(S)
          /\ last' = [op |-> "preference_save", ok |-> S.ok, steps |-> <<>>,
                      user |-> u.id, data |-> data]
    /\ prefWrites' = prefWrites + 1
    /\ UNCHANGED <<pending, nextId, lc_ctype, settings>>

\* UserPreferenceSerializer.update: the instance takes the validated fields
PreferenceUpdateRow(S, instance, username, data) ==
  LET user == CHOOSE u \in S.users : u.username = username
  IN [S EXCEPT !.prefs = (@ \ {instance}) \cup
        {[instance EXCEPT !.user = user.id, !.name = data.name, !.value = data.value]}]

\* is_valid(raise_exception=True) and save() of an existing preference
PreferenceUpdate ==
  \E instance \in prefs, data \in PrefData, emptySame \in BOOLEAN :
    /\ Accepting
    /\ LET u == CHOOSE x \in users : x.id = instance.user
           v == validate(data, lc_ctype, lc_monetary, emptySame)
           S0 == [Begin EXCEPT !.monetary = v.monetary]
           S == IF v.ok THEN PreferenceUpdateRow(S0, instance, u.username, data)
                ELSE Raise(S0)
       IN /\ Commit(S)
          /\ last' = [op |-> "preference_update", ok |-> S.ok, steps |-> <<>>,
                      user |-> u.id, data |-> data]
    /\ prefWrites' = prefWrites + 1
    /\ UNCHANGED <<pending, nextId, lc_ctype, settings>>

Next ==
  \/ UserValidate
  \/ CustomerValidate
  \/ UserCreate
  \/ CustomerCreate
  \/ PreferenceSave
  \/ PreferenceUpdate

Spec == Init /\ [][Next]_vars

---------------------------------------------------------------------------
(* Properties *)

IsCreate(op) == op \in {"user_create", "customer_create"}

\* position of a step in a call's step list, 0 when it did not happen
RECURSIVE IndexOf(_, _, _)
IndexOf(steps, name, i) ==
  IF i > Len(steps) THEN 0
  ELSE IF steps[i] = name THEN i
  ELSE IndexOf(steps, name, i + 1)

Pos(name) == IndexOf(last.steps, name, 1)

DefaultRows(uid) ==
  { [user |-> uid, name |-> n, value |-> settings[n],
     description |-> "default preference"] : n \in PrefNames }

\* C1: CustomerSerializer.create is all-or-nothing.  A call that returns has
\* stored the owner (with its three default preferences and one reset
\* token) and a customer row carrying the schema name whose user set holds
\* the owner; a call that raises leaves users, preferences, reset tokens and
\* customers exactly as they were before the call.
C1_CustomerCreateAllOrNothing ==
  [][ last'.op = "customer_create" =>
        IF last'.ok
        THEN /\ \E u \in users' : u.id = last'.user
             /\ DefaultRows(last'.user) \subseteq prefs'
             /\ \E t \in tokens' : t.user = last'.user
             /\ \E c \in customers' :
                  /\ c.owner = last'.user
                  /\ c.schema_name = _create_schema_name(c.name)
                  /\ last'.user \in c.user_set
        ELSE /\ users' = users /\ prefs' = prefs
             /\ tokens' = tokens /\ customers' = customers ]_vars

\* a customer creation that raised after the owner's rows and the mail
C1_Witness ==
  /\ last.op = "customer_create" /\ ~last.ok
  /\ Pos("email") > 0

\* the name with the characters outside \w removed, the rest lowercased
RECURSIVE StripNonWordLower(_)
StripNonWordLower(name) ==
  IF name = <<>> THEN <<>>
  ELSE (IF IsWordChar(Head(name)) THEN <<Lower(Head(name))>> ELSE <<>>)
       \o StripNonWordLower(Tail(name))

\* C2 as stated: every customer's schema_name is its name with every
\* non-word character removed and the word characters kept, lowercased.
C2_SchemaNameKeepsWordChars ==
  \A c \in customers : c.schema_name = StripNonWordLower(c.name)

IsLetterOrDigit(ch) == IsWordChar(ch) /\ ch # "_"

\* C2 as amended: every customer's schema_name is its name with every
\* non-word character and every underscore removed and the remaining letters
\* and digits lowercased, in their original order; equal names give equal
\* schema names.
C2_SchemaNameStripsUnderscoreToo ==
  /\ \A c \in customers :
       LET kept == SelectSeq(c.name, IsLetterOrDigit)
       IN /\ Len(c.schema_name) = Len(kept)
          /\ \A i \in 1..Len(kept) : c.schema_name[i] = Lower(kept[i])
  /\ \A c1, c2 \in customers : c1.name = c2.name => c1.schema_name = c2.schema_name

\* a customer whose name holds punctuation and an uppercase letter
C2_Witness ==
  \E c \in customers : c.name = <<"A", "-", "c">> /\ c.schema_name = <<"a", "c">>

\* C3: for a preference named locale, currency or timezone, validation raises
\* exactly when the value is not in the valid set of that name (a missing key
\* included), and every stored preference with one of these names holds a
\* value of the matching set.
C3_ValidationRaisesIffInvalid ==
  /\ (last.op \in {"preference_save", "preference_update"} /\ last.data.name \in PrefNames)
       => (last.ok <=> last.data.value \in ValidSet(last.data.name))
  /\ \A p \in prefs : p.name \in PrefNames => p.value \in ValidSet(p.name)

\* C4: no two stored users have the same email, whatever the interleaving of
\* validations and creations.
C4_EmailsUnique ==
  \A u1, u2 \in users : u1.email = u2.email => u1 = u2

\* C5: no two stored customers with different names share a schema_name, and
\* no stored customer has an empty schema_name.
C5_OwnSchema ==
  /\ \A c1, c2 \in customers : c1.name # c2.name => c1.schema_name # c2.schema_name
  /\ \A c \in customers : c.schema_name # <<>>

\* C6: every stored user has exactly one reset token referencing it, and every
\* stored reset token references a stored user.
C6_UserHasOneResetToken ==
  /\ \A u \in users : Cardinality({t \in tokens : t.user = u.id}) = 1
  /\ \A t \in tokens : \E u \in users : u.id = t.user

\* two stored users, each with its own token
C6_Witness ==
  /\ Cardinality(users) = 2
  /\ \A u \in users : \E t \in tokens : t.user = u.id

\* C7: in a creation the three default preferences are saved after the user
\* row and before the reset token and the mail; a creation that returns
\* leaves the new user with exactly the three defaults currency, timezone and
\* locale holding the configured values; and with a default that is not in
\* its valid set no creation returns and no user is stored.
C7_DefaultsRightAfterUser ==
  IsCreate(last.op) =>
    /\ \A n \in PrefNames :
         Pos("pref_" \o n) > 0 =>
           /\ Pos("create_user") > 0 /\ Pos("create_user") < Pos("pref_" \o n)
           /\ Pos("reset_token") > 0 => Pos("pref_" \o n) < Pos("reset_token")
           /\ Pos("email") > 0 => Pos("pref_" \o n) < Pos("email")
    /\ (Pos("reset_token") > 0 \/ Pos("email") > 0) =>
         \A n \in PrefNames : Pos("pref_" \o n) > 0
    /\ last.ok => {p \in prefs : p.user = last.user} = DefaultRows(last.user)
    /\ (\E n \in PrefNames : settings[n] \notin ValidSet(n)) =>
         /\ ~last.ok
         /\ users = {}

\* a registration that returned
C7_Witness ==
  /\ last.op = "user_create" /\ last.ok
  /\ Pos("pref_locale") > 0

MailsFor(u) == {i \in DOMAIN outbox : outbox[i].uuid = u.uuid}

\* C8: every stored user was mailed exactly once, with its own username,
\* email, uuid and the token of its own reset token; no mail carries the
\* token of another user's reset token.
C8_OneMailPerUserWithOwnToken ==
  /\ \A u \in users :
       /\ Cardinality(MailsFor(u)) = 1
       /\ \A i \in MailsFor(u) :
            /\ outbox[i].username = u.username
            /\ outbox[i].email = u.email
            /\ \E t \in tokens : t.user = u.id /\ t.token = outbox[i].token
  /\ \A i \in DOMAIN outbox : \A t \in tokens :
       t.token = outbox[i].token =>
         \E u \in users : u.id = t.user /\ u.uuid = outbox[i].uuid

\* one stored user, beside the mail of a creation that was rolled back
C8_Witness ==
  /\ Cardinality(users) = 1
  /\ Len(outbox) = 2

\* C9: a creation writes all its rows, then sends the mail, then returns:
\* no row is written after the mail, and every mail sent refers to a user
\* and a reset token that are stored when the operation has ended.
C9_MailOnlyForStoredUsers ==
  /\ IsCreate(last.op) =>
       \A n \in {"customer", "user_set"} :
         (Pos(n) > 0 /\ Pos("email") > 0) => Pos(n) < Pos("email")
  /\ \A i \in DOMAIN outbox :
       \E u \in users :
         /\ u.uuid = outbox[i].uuid
         /\ \E t \in tokens : t.user = u.id /\ t.token = outbox[i].token

\* C10: no call changes the locale state: LC_MONETARY after a call that ran
\* _currency_symbols is the LC_MONETARY before it, and LC_CTYPE is untouched.
C10_LocaleUnchanged ==
  [][lc_monetary' = lc_monetary /\ lc_ctype' = lc_ctype]_vars

====
